---- MODULE Spec2Model ----
(***************************************************************************)
(* Jessipes worker (worker/index.js, the version with SSRF validation):    *)
(* URL validation, bounded retrieval of the recipe page, meta-tag          *)
(* extraction, and the POST /recipes handler that stores the result.       *)
(*                                                                         *)
(* Strings are TLA+ strings; the JavaScript string built-ins the code uses *)
(* (startsWith, includes, replace, match, Number, new URL) are modelled    *)
(* character by character.                                                 *)
(***************************************************************************)
EXTENDS Integers, Sequences, FiniteSets, TLC

(***************************************************************************)
(* Option values: None is JavaScript null/undefined, Some(v) a value.      *)
(***************************************************************************)
None == <<>>
Some(v) == <<v>>
IsSome(o) == o # <<>>
Val(o) == o[1]

(***************************************************************************)
(* JavaScript string built-ins.                                            *)
(***************************************************************************)
StartsWith(s, p) == Len(s) >= Len(p) /\ SubSeq(s, 1, Len(p)) = p

\* String.prototype.indexOf: the first 1-based position of sub in s, 0 if none.
IndexOf(s, sub) ==
    LET hits == {i \in 1..(Len(s) - Len(sub) + 1) : SubSeq(s, i, i + Len(sub) - 1) = sub}
    IN IF hits = {} THEN 0 ELSE CHOOSE i \in hits : \A j \in hits : i <= j

LastIndexOf(s, sub) ==
    LET hits == {i \in 1..(Len(s) - Len(sub) + 1) : SubSeq(s, i, i + Len(sub) - 1) = sub}
    IN IF hits = {} THEN 0 ELSE CHOOSE i \in hits : \A j \in hits : i >= j

Includes(s, sub) == IndexOf(s, sub) # 0

Tail_(s, i) == SubSeq(s, i, Len(s))

\* String.prototype.replace(/from/g, to): every non-overlapping occurrence,
\* left to right; the replacement text is not scanned again.
RECURSIVE ReplaceAll(_, _, _)
ReplaceAll(s, from, to) ==
    LET i == IndexOf(s, from)
    IN IF i = 0 THEN s
       ELSE SubSeq(s, 1, i - 1) \o to \o ReplaceAll(Tail_(s, i + Len(from)), from, to)

Digits == {"0", "1", "2", "3", "4", "5", "6", "7", "8", "9"}
Letters == {"a", "b", "c", "d", "e", "f", "g", "h", "i", "j", "k", "l", "m",
            "n", "o", "p", "q", "r", "s", "t", "u", "v", "w", "x", "y", "z"}

IsDigits(s) == Len(s) >= 1 /\ \A i \in 1..Len(s) : SubSeq(s, i, i) \in Digits

DigitVal(c) ==
    CASE c = "0" -> 0 [] c = "1" -> 1 [] c = "2" -> 2 [] c = "3" -> 3 [] c = "4" -> 4
      [] c = "5" -> 5 [] c = "6" -> 6 [] c = "7" -> 7 [] c = "8" -> 8 [] c = "9" -> 9

\* Number(s) for a string of decimal digits.
RECURSIVE Number(_)
Number(s) ==
    IF Len(s) = 0 THEN 0
    ELSE 10 * Number(SubSeq(s, 1, Len(s) - 1)) + DigitVal(SubSeq(s, Len(s), Len(s)))

\* s.split("."): the dot-separated parts of s.
RECURSIVE SplitDots(_)
SplitDots(s) ==
    LET i == IndexOf(s, ".")
    IN IF i = 0 THEN <<s>> ELSE <<SubSeq(s, 1, i - 1)>> \o SplitDots(Tail_(s, i + 1))

(***************************************************************************)
(* new URL(url): the WHATWG parser on absolute URLs of the form            *)
(* scheme ":" ["//"] [userinfo "@"] host [":" port] path.  A string with   *)
(* no scheme, or an http(s) URL with an empty host, makes the constructor  *)
(* throw (ok = FALSE).  The hostname of an IPv6 literal keeps its          *)
(* brackets, as the parser serialises it.  Hosts are taken in canonical    *)
(* form (lower case, dotted-decimal IPv4).                                 *)
(***************************************************************************)
SpecialSchemes == {"http", "https", "ftp", "ws", "wss"}

IsScheme(s) ==
    /\ Len(s) >= 1
    /\ SubSeq(s, 1, 1) \in Letters
    /\ \A i \in 1..Len(s) : SubSeq(s, i, i) \in Letters \cup Digits \cup {"+", "-", "."}

RECURSIVE StripSlashes(_)
StripSlashes(s) == IF StartsWith(s, "/") THEN StripSlashes(Tail_(s, 2)) ELSE s

\* The part of s before position i (all of s when i = 0).
Before(s, i) == IF i = 0 THEN s ELSE SubSeq(s, 1, i - 1)

URLFail == [ok |-> FALSE, protocol |-> "", hostname |-> "", host |-> ""]

\* hostport is host[:port]; hostname is it without the port.
MakeUrl(scheme, special, hostport, hostname) ==
    IF special /\ hostname = "" THEN URLFail
    ELSE [ok |-> TRUE, protocol |-> scheme \o ":", hostname |-> hostname,
          host |-> hostport]

\* The position of the colon that starts the port, 0 if there is no port.  In
\* a bracketed IPv6 literal the colons inside the brackets do not count.
BracketColon(hostport, close) == IF Len(hostport) > close THEN close + 1 ELSE 0

PortColon(hostport) ==
    IF StartsWith(hostport, "[") THEN BracketColon(hostport, IndexOf(hostport, "]"))
    ELSE IndexOf(hostport, ":")

ParseHostPort(scheme, special, hostport) ==
    MakeUrl(scheme, special, hostport, Before(hostport, PortColon(hostport)))

\* authority is [userinfo@]host[:port].
AfterUserinfo(authority) == Tail_(authority, LastIndexOf(authority, "@") + 1)

ParseHost(scheme, special, s) ==
    ParseHostPort(scheme, special, AfterUserinfo(Before(s, IndexOf(s, "/"))))

ParseAuthority(scheme, rest) ==
    IF ~IsScheme(scheme) THEN URLFail
    ELSE IF scheme \in SpecialSchemes THEN ParseHost(scheme, TRUE, StripSlashes(rest))
    ELSE IF StartsWith(rest, "//") THEN ParseHost(scheme, FALSE, Tail_(rest, 3))
    ELSE [ok |-> TRUE, protocol |-> scheme \o ":", hostname |-> "", host |-> ""]

ParseScheme(url, c) ==
    IF c <= 1 THEN URLFail
    ELSE ParseAuthority(SubSeq(url, 1, c - 1), Tail_(url, c + 1))

URLParse(url) == ParseScheme(url, IndexOf(url, ":"))

(***************************************************************************)
(* isValidUrl: the SSRF filter.                                            *)
(***************************************************************************)
\* Variant: the protocol is not looked at.
AllowedProtocol_Any(protocol) == TRUE

\* ['http:', 'https:'].includes(urlObj.protocol)
AllowedProtocol(protocol) == protocol \in {"http:", "https:"}

\* ['localhost', '127.0.0.1', '::1'].includes(hostname)
LoopbackName(hostname) == hostname \in {"localhost", "127.0.0.1", "::1"}

\* hostname.match(/^(\d{1,3})\.(\d{1,3})\.(\d{1,3})\.(\d{1,3})$/).map(Number)
OctetsOf(parts) ==
    IF Len(parts) = 4 /\ \A i \in 1..4 : IsDigits(parts[i]) /\ Len(parts[i]) <= 3
    THEN Some([i \in 1..4 |-> Number(parts[i])])
    ELSE None

ipv4Regex(hostname) == OctetsOf(SplitDots(hostname))

\* The four range tests on the first two octets.
PrivateRange(a, b) ==
    \/ a = 10
    \/ a = 172 /\ b >= 16 /\ b <= 31
    \/ a = 192 /\ b = 168
    \/ a = 169 /\ b = 254

BlockedIp(ipMatch) == IsSome(ipMatch) /\ PrivateRange(Val(ipMatch)[1], Val(ipMatch)[2])

ValidParsed(urlObj) ==
    IF ~urlObj.ok THEN FALSE
    ELSE IF ~AllowedProtocol(urlObj.protocol) THEN FALSE
    ELSE IF LoopbackName(urlObj.hostname) THEN FALSE
    ELSE ~BlockedIp(ipv4Regex(urlObj.hostname))

isValidUrl(url) == ValidParsed(URLParse(url))

(***************************************************************************)
(* resolveUrl: make an image reference found in the page absolute.         *)
(***************************************************************************)
ResolveAgainst(imageUrl, urlObj) ==
    IF StartsWith(imageUrl, "//") THEN "https:" \o imageUrl
    ELSE IF StartsWith(imageUrl, "/") THEN
        urlObj.protocol \o "//" \o urlObj.host \o imageUrl
    ELSE IF ~StartsWith(imageUrl, "http") THEN
        urlObj.protocol \o "//" \o urlObj.host \o "/" \o imageUrl
    ELSE imageUrl

resolveUrl(imageUrl, baseUrl) == ResolveAgainst(imageUrl, URLParse(baseUrl))

(***************************************************************************)
(* The fetched page.  The code never builds a DOM: it runs fixed regular   *)
(* expressions over the text.  A page is the sequence of its elements in   *)
(* document order; a meta element is the sequence of its attributes as     *)
(* written, <<name, value>>, and each regular expression looks at the      *)
(* first two attributes of a <meta ...> tag.                               *)
(***************************************************************************)
Meta(a1, a2) == [tag |-> "meta", attrs |-> <<a1, a2>>, text |-> ""]
TitleTag(t) == [tag |-> "title", attrs |-> <<>>, text |-> t]

\* <meta\s+ATTR=["']KEY["']\s+content=["']([^"']*)["']
KeyFirst(e, attr, key) ==
    /\ e.tag = "meta"
    /\ Len(e.attrs) >= 2
    /\ e.attrs[1] = <<attr, key>>
    /\ e.attrs[2][1] = "content"

\* <meta\s+content=["']([^"']*)["']\s+ATTR=["']KEY["']
ContentFirst(e, attr, key) ==
    /\ e.tag = "meta"
    /\ Len(e.attrs) >= 2
    /\ e.attrs[1][1] = "content"
    /\ e.attrs[2] = <<attr, key>>

Hit(e, pat) ==
    IF pat.keyFirst THEN KeyFirst(e, pat.attr, pat.key)
    ELSE ContentFirst(e, pat.attr, pat.key)

MinOf(S) == CHOOSE i \in S : \A j \in S : i <= j

\* Capture group 1 of the match at element e.
Capture(e, pat) == IF pat.keyFirst THEN e.attrs[2][2] ELSE e.attrs[1][2]

FirstOf(html, pat, hits) ==
    IF hits = {} THEN None ELSE Some(Capture(html[MinOf(hits)], pat))

\* html.match(pattern): capture group 1 of the first match in the text.
MatchPattern(html, pat) ==
    FirstOf(html, pat, {i \in 1..Len(html) : Hit(html[i], pat)})

\* The chain of .replace(/.../g, ...) calls applied to a captured value.
DecodeEntities(s) ==
    ReplaceAll(ReplaceAll(ReplaceAll(ReplaceAll(ReplaceAll(ReplaceAll(s,
        "&amp;", "&"), "&lt;", "<"), "&gt;", ">"), "&quot;", "\""), "&#x27;", "'"),
        "&#x2F;", "/")

\* Variant: only the patterns with the key attribute first.
Patterns_KeyFirstOnly(property, name) ==
    << [attr |-> "property", key |-> property, keyFirst |-> TRUE] >>
    \o (IF IsSome(name)
        THEN << [attr |-> "name", key |-> Val(name), keyFirst |-> TRUE] >>
        ELSE << >>)

\* The patterns array: property first, then (if a name is given) name.
Patterns(property, name) ==
    << [attr |-> "property", key |-> property, keyFirst |-> TRUE],
       [attr |-> "property", key |-> property, keyFirst |-> FALSE] >>
    \o (IF IsSome(name)
        THEN << [attr |-> "name", key |-> Val(name), keyFirst |-> TRUE],
                [attr |-> "name", key |-> Val(name), keyFirst |-> FALSE] >>
        ELSE << >>)

\* The for loop over the patterns: the first pattern whose first match
\* captured a non-empty value decides; its value is entity-decoded.
DecodeFirst(matches, good) ==
    IF good = {} THEN None ELSE Some(DecodeEntities(Val(matches[MinOf(good)])))

FirstTruthy(matches) ==
    DecodeFirst(matches, {k \in 1..Len(matches) : IsSome(matches[k]) /\ Val(matches[k]) # ""})

MatchAll(html, patterns) == [k \in 1..Len(patterns) |-> MatchPattern(html, patterns[k])]

\* extractMetaContent(html, property, name = null)
extractMetaContent(html, property, name) ==
    FirstTruthy(MatchAll(html, Patterns(property, name)))

(***************************************************************************)
(* extractPreviewImage, after the body has been read: the candidates in    *)
(* the order the code tries them.  A candidate is returned only if its     *)
(* resolved URL passes isValidUrl; otherwise the next candidate is tried.  *)
(***************************************************************************)
\* Variant: the resolved url is returned without the second validation.
Revalidate_Skip(resolvedUrl) == Some(resolvedUrl)

\* if (isValidUrl(resolvedUrl)) return resolvedUrl
Revalidate(resolvedUrl) == IF isValidUrl(resolvedUrl) THEN Some(resolvedUrl) ELSE None

\* if (imageUrl) { const resolvedUrl = resolveUrl(imageUrl, url); ... }
Candidate(imageUrl, url) ==
    IF IsSome(imageUrl) THEN Revalidate(resolveUrl(Val(imageUrl), url)) ELSE None

\* a || b
OrElse(a, b) == IF IsSome(a) THEN a ELSE b

OgImage(html) == extractMetaContent(html, "og:image", None)
TwitterImage(html) == extractMetaContent(html, "twitter:image", Some("twitter:image"))
GenericImage(html) ==
    OrElse(extractMetaContent(html, "image", None),
           extractMetaContent(html, "thumbnail", Some("thumbnail")))

\* Variants: another order of preference.
FallThrough_TwitterFirst(og, twitter, generic) == OrElse(twitter, OrElse(og, generic))
FallThrough_GenericFirst(og, twitter, generic) == OrElse(generic, OrElse(og, twitter))

\* The candidates in the order tried; the first that yields a value is returned.
FallThrough(og, twitter, generic) == OrElse(og, OrElse(twitter, generic))

PreviewFromHtml(html, url) ==
    FallThrough(Candidate(OgImage(html), url), Candidate(TwitterImage(html), url),
                Candidate(GenericImage(html), url))

(***************************************************************************)
(* Limits and the inputs the environment draws from.                       *)
(***************************************************************************)
TimeoutMs == 10000
MAX_HTML_SIZE == 1024 * 1024

\* How many chunks a body may arrive in and how many elements a page may have.
MaxChunks == 2
MaxElems == 2

\* The clock advances to the next timer deadline, or by a whole time budget.
TickMs == TimeoutMs

\* Chunk sizes: two halves make a body of exactly the limit.
HalfSize == MAX_HTML_SIZE \div 2
ChunkSizes == {HalfSize, HalfSize + 1, MAX_HTML_SIZE + 1}

\* The url form field of POST /recipes (and the url parameter of the title
\* lookup): allowed hosts, every blocked class, both sides of each range
\* boundary, other schemes, and strings that are no URL.
Urls ==
    { "https://example.com/page", "http://example.com:8080/recipe",
      "http://203.0.113.7/r",
      "file:///etc/passwd", "ftp://example.com/r", "data:text/html,x",
      "javascript:alert(1)",
      "http://localhost:8080/recipe", "http://127.0.0.1/r", "http://[::1]/r",
      "http://127.0.0.2/r", "http://127.255.255.254/r",
      "http://10.0.0.1/r", "http://10.255.255.255/r", "http://11.0.0.1/r",
      "http://172.16.0.1/r", "http://172.31.255.255/r", "http://172.15.0.1/r",
      "http://172.32.0.1/r",
      "http://192.168.1.1/recipe", "http://192.167.1.1/r",
      "http://169.254.169.254/latest", "http://169.253.0.1/r",
      "not a url", "" }

\* The urls whose pages are explored with every document of Docs.
PageUrls ==
    { "https://example.com/page", "http://example.com:8080/recipe",
      "http://192.168.1.1/recipe", "file:///etc/passwd", "" }

Statuses == {200, 404}
ContentTypes == {"text/html; charset=utf-8", "application/json", ""}

\* Response.ok
Ok(status) == status >= 200 /\ status <= 299

\* The meta elements a page is built from.
Elems ==
    { Meta(<<"property", "og:image">>, <<"content", "https://cdn.example.com/og.jpg">>),
      Meta(<<"content", "/img/og2.png?a=1&amp;b=2">>, <<"property", "og:image">>),
      Meta(<<"property", "og:image">>, <<"content", "http://192.168.1.1/og.png">>),
      Meta(<<"property", "og:image">>, <<"content", "">>),
      Meta(<<"name", "twitter:image">>, <<"content", "https://cdn.example.com/tw.jpg">>),
      Meta(<<"property", "image">>, <<"content", "//cdn.example.com/gen.png">>),
      Meta(<<"content", "thumb.png">>, <<"name", "thumbnail">>),
      TitleTag("Soup &amp; Bread"),
      Meta(<<"property", "og:title">>, <<"content", "Soup from OG">>),
      Meta(<<"name", "twitter:title">>, <<"content", "Soup from Twitter">>) }

RECURSIVE SeqsUpTo(_, _)
SeqsUpTo(S, n) ==
    IF n = 0 THEN {<< >>}
    ELSE SeqsUpTo(S, n - 1) \cup
         {Append(q, e) : q \in {r \in SeqsUpTo(S, n - 1) : Len(r) = n - 1}, e \in S}

Docs == SeqsUpTo(Elems, MaxElems)

\* The number of bytes the elements of a page take up on the wire.
ElemBytes(e) ==
    IF e.tag = "title" THEN Len("<title></title>") + Len(e.text)
    ELSE Len("<meta  >") + Len(e.attrs[1][1]) + Len(e.attrs[1][2])
         + Len(e.attrs[2][1]) + Len(e.attrs[2][2]) + 2 * Len("=\"\"")

RECURSIVE DocBytes(_)
DocBytes(doc) == IF doc = << >> THEN 0 ELSE ElemBytes(Head(doc)) + DocBytes(Tail(doc))

(***************************************************************************)
(* State of one worker invocation.                                         *)
(***************************************************************************)
VARIABLES
    kind,       \* "none", "post" (POST /recipes) or "title" (title lookup)
    pc,         \* "idle", "awaitHeaders", "reading", "done"
    reqUrl,     \* the url the request carries: None or Some(string)
    reqPhoto,   \* whether the form carries a photo
    now,        \* the clock, in ms
    started,    \* the time at which the retrieval was issued
    timer,      \* the abort timer: "none", "armed", "cleared", "fired"
    deadline,   \* when the armed timer is due
    fetchLog,   \* the URLs global fetch has been called with
    conn,       \* the outbound connection: "none", "pending", "open",
                \* "closed", "aborted", "cancelled", "failed"
    response,   \* the response headers: None or Some([status, contentType])
    reads,      \* the number of reader.read() calls issued
    totalSize,  \* bytes counted so far
    chunks,     \* the sizes of the chunks pushed into the buffer
    html,       \* the decoded page: None until the body has been read
    stage,      \* where the extraction ended: "pending", "skipped", "ok",
                \* "validation", "network", "timeout", "status", "notHtml",
                \* "tooLarge", "noMatch"
    thrown,     \* whether the extraction function let an exception escape
    result,     \* what the extraction returned: None or Some(string)
    kv,         \* env.RECIPES: id -> stored record
    photos,     \* env.PHOTOS: the keys stored
    httpResp,   \* the worker's response: None or Some([status, body])
    req,        \* the request being served: None or Some([method, path, auth])
    storeOps,   \* the operations on env.RECIPES / env.PHOTOS it has issued
    calls,      \* concurrent extractPreviewImage calls: id -> local state
    applied,    \* a function applied on its own: None or Some([fn, args, ret])
    patches,    \* concurrent PATCH invocations: id -> local state
    ui          \* the client: the state of the App component and its requests

vars == <<kind, pc, reqUrl, reqPhoto, now, started, timer, deadline, fetchLog, conn,
          response, reads, totalSize, chunks, html, stage, thrown, result, kv,
          photos, httpResp, req, storeOps, calls, applied, patches, ui>>

sideVars == <<calls, applied, patches, ui>>
reqVars == <<kind, reqUrl, reqPhoto>>
bodyVars == <<reads, totalSize, chunks, html>>

\* The extractPreviewImage calls that may be in flight at once, and the local
\* state of a call that has not started.
CallIds == {"a", "b"}

IdleCall ==
    [pc |-> "idle", url |-> "", timer |-> "none", deadline |-> 0, response |-> None,
     totalSize |-> 0, nChunks |-> 0, doc |-> None, stage |-> "pending", result |-> None]

\* A PATCH invocation that has not started.
IdlePatch == [pc |-> "idle", id |-> "", body |-> << >>, recipe |-> None, status |-> 0]

\* The App component after its first render with a secret, before any
\* recipe has been loaded: useState initial values, no request in flight.
\* deletes, undeletes and lookups are the requests in flight, timers the
\* setTimeout callbacks pending; a lookup and a timer keep the values their
\* closure captured.  ignoredClick tells that a click on Restore started no
\* request, settled which delete or undelete request was answered last.
IdleApp ==
    [recipes |-> << >>, showDeleted |-> FALSE, showConfirmDelete |-> None,
     undeletingIds |-> {}, undeletes |-> << >>, deletes |-> << >>, ignoredClick |-> FALSE,
     settled |-> None,
     url |-> "", title |-> "", titleManuallyEdited |-> FALSE,
     fetchingTitle |-> FALSE, timers |-> << >>, lookups |-> << >>]

Init ==
    /\ kind = "none"
    /\ pc = "idle"
    /\ reqUrl = None
    /\ reqPhoto = FALSE
    /\ now = 0
    /\ started = 0
    /\ timer = "none"
    /\ deadline = 0
    /\ fetchLog = << >>
    /\ conn = "none"
    /\ response = None
    /\ reads = 0
    /\ totalSize = 0
    /\ chunks = << >>
    /\ html = None
    /\ stage = "pending"
    /\ thrown = FALSE
    /\ result = None
    /\ kv = << >>
    /\ photos = {}
    /\ httpResp = None
    /\ req = None
    /\ storeOps = << >>
    /\ calls = [c \in CallIds |-> IdleCall]
    /\ applied = None
    /\ patches = [c \in CallIds |-> IdlePatch]
    /\ ui = IdleApp

RECURSIVE Sum(_)
Sum(q) == IF q = << >> THEN 0 ELSE Head(q) + Sum(Tail(q))

(***************************************************************************)
(* POST /recipes (authorized).  The handler awaits extractPreviewImage,    *)
(* then uploads the photo, stores the record and answers.                  *)
(***************************************************************************)
\* Variant: the catch block lets the error escape.
CatchAll_Rethrow(err) == [thrown |-> TRUE, result |-> None]

\* The catch block of extractPreviewImage: every error becomes null.
CatchAll(err) == [thrown |-> FALSE, result |-> None]

\* crypto.randomUUID(): an id not in use, here the first unused name.
RecipeIds == <<"r1", "r2", "r3", "r4">>
PhotoIds == <<"p1", "p2", "p3", "p4">>
FreshOf(names, used) ==
    names[MinOf({i \in 1..Len(names) : names[i] \notin used})]

\* The shared secret the Authorization header is compared with.
API_SECRET == "test-secret"

\* The rest of the POST handler once extractPreviewImage has settled with
\* outcome out: previewImage is set only for a truthy result, a thrown error is
\* logged and ignored; then photo upload, RECIPES.put and the 200 response.
\* created is the time the request arrived.
FinishPost(u, photo, out) ==
    LET preview == IF ~out.thrown /\ IsSome(out.result) /\ Val(out.result) # ""
                   THEN out.result ELSE None
        posted == IF pc = "idle" THEN now ELSE started
        photoId == FreshOf(PhotoIds, {SubSeq(k, Len("photos/") + 1, Len(k)) : k \in photos})
        id == FreshOf(RecipeIds, DOMAIN kv)
        rec == [url |-> u, previewImage |-> preview,
                photo |-> IF photo THEN Some("/photos/" \o photoId) ELSE None,
                created |-> posted, deleted |-> FALSE]
    IN /\ pc' = "done"
       /\ thrown' = out.thrown
       /\ result' = out.result
       /\ photos' = IF photo THEN photos \cup {"photos/" \o photoId} ELSE photos
       /\ kv' = (id :> rec) @@ kv
       /\ storeOps' = storeOps
              \o (IF photo THEN << <<"PHOTOS", "put", "photos/" \o photoId>> >> ELSE << >>)
              \o << <<"RECIPES", "put", id>> >>
       /\ httpResp' = Some([status |-> 200, body |-> rec])

\* The request arrives.  Without a url the extraction is skipped; with one,
\* extractPreviewImage runs up to its first await: validation, then the timer
\* is armed and the page is requested.
PostRecipes(u, photo) ==
    /\ pc = "idle"
    /\ req' = Some([method |-> "POST", path |-> "/recipes", auth |-> Some(API_SECRET)])
    /\ kind' = "post"
    /\ reqUrl' = u
    /\ reqPhoto' = photo
    /\ IF ~IsSome(u) \/ Val(u) = "" THEN
           /\ stage' = "skipped"
           /\ FinishPost(u, photo, [thrown |-> FALSE, result |-> None])
           /\ UNCHANGED <<started, timer, deadline, fetchLog, conn>>
       ELSE IF ~isValidUrl(Val(u)) THEN
           /\ stage' = "validation"
           /\ FinishPost(u, photo, [thrown |-> FALSE, result |-> None])
           /\ UNCHANGED <<started, timer, deadline, fetchLog, conn>>
       ELSE
           /\ timer' = "armed"
           /\ deadline' = now + TimeoutMs
           /\ started' = now
           /\ fetchLog' = Append(fetchLog, Val(u))
           /\ conn' = "pending"
           /\ pc' = "awaitHeaders"
           /\ UNCHANGED <<stage, thrown, result, kv, photos, httpResp, storeOps>>
    /\ UNCHANGED <<now, response, bodyVars, sideVars>>

\* fetch rejects with a network error: the catch block returns null.  The
\* timer is not cleared on this path.
FetchRejects ==
    /\ kind = "post"
    /\ pc = "awaitHeaders"
    /\ conn' = "failed"
    /\ stage' = "network"
    /\ FinishPost(reqUrl, reqPhoto, CatchAll("TypeError"))
    /\ UNCHANGED <<reqVars, now, started, timer, deadline, fetchLog, response, bodyVars>>
    /\ UNCHANGED <<req, sideVars>>

\* The 10 s timer fires while fetch is pending: controller.abort() cancels
\* the request, fetch rejects with AbortError, the catch block returns null.
TimerFires ==
    /\ kind = "post"
    /\ pc = "awaitHeaders"
    /\ timer = "armed"
    /\ now >= deadline
    /\ timer' = "fired"
    /\ conn' = "aborted"
    /\ stage' = "timeout"
    /\ FinishPost(reqUrl, reqPhoto, CatchAll("AbortError"))
    /\ UNCHANGED <<reqVars, now, started, deadline, fetchLog, response, bodyVars>>
    /\ UNCHANGED <<req, sideVars>>

\* Variant: the content type is not looked at.
HeaderCheck_StatusOnly(status, contentType) == IF ~Ok(status) THEN "status" ELSE "read"

\* What extractPreviewImage does with the headers: "status" and "notHtml"
\* return null at once, "read" goes on to the body.
HeaderCheck(status, contentType) ==
    IF ~Ok(status) THEN "status"
    ELSE IF ~Includes(contentType, "text/html") THEN "notHtml"
    ELSE "read"

\* The response headers arrive: the timer is cleared, then status and
\* content type are checked; only then is the reader taken and the first
\* read issued.
HeadersArrive(status, contentType) ==
    /\ kind = "post"
    /\ pc = "awaitHeaders"
    /\ ~(timer = "armed" /\ now >= deadline)
    /\ timer' = "cleared"
    /\ conn' = "open"
    /\ response' = Some([status |-> status, contentType |-> contentType])
    /\ IF HeaderCheck(status, contentType) = "read" THEN
           /\ pc' = "reading"
           /\ reads' = 1
           /\ UNCHANGED <<stage, thrown, result, kv, photos, httpResp, storeOps>>
       ELSE
           /\ stage' = HeaderCheck(status, contentType)
           /\ FinishPost(reqUrl, reqPhoto, [thrown |-> FALSE, result |-> None])
           /\ UNCHANGED reads
    /\ UNCHANGED <<reqVars, now, started, deadline, fetchLog, totalSize, chunks, html>>
    /\ UNCHANGED <<req, sideVars>>

\* Variant: a body that reaches the limit is refused.
TooLarge_AtLimit(total) == total >= MAX_HTML_SIZE

\* Whether a chunk that brings the count to total is refused.
TooLarge(total) == total > MAX_HTML_SIZE

\* reader.read() yields a chunk of size bytes: it is counted, and either the
\* limit is exceeded (reader.cancel(), throw, catch: null) or the chunk is
\* pushed and the next read is issued.
ChunkArrives(size) ==
    /\ kind = "post"
    /\ pc = "reading"
    /\ Len(chunks) < MaxChunks
    /\ totalSize' = totalSize + size
    /\ IF TooLarge(totalSize + size) THEN
           /\ conn' = "cancelled"
           /\ stage' = "tooLarge"
           /\ FinishPost(reqUrl, reqPhoto, CatchAll("Error"))
           /\ UNCHANGED <<chunks, reads>>
       ELSE
           /\ chunks' = Append(chunks, size)
           /\ reads' = reads + 1
           /\ UNCHANGED <<pc, conn, stage, thrown, result, kv, photos, httpResp, storeOps>>
    /\ UNCHANGED <<reqVars, now, started, timer, deadline, fetchLog, response, html>>
    /\ UNCHANGED <<req, sideVars>>

\* reader.read() rejects (the connection breaks): the catch block returns null.
BodyFails ==
    /\ kind = "post"
    /\ pc = "reading"
    /\ conn' = "failed"
    /\ stage' = "network"
    /\ FinishPost(reqUrl, reqPhoto, CatchAll("TypeError"))
    /\ UNCHANGED <<reqVars, now, started, timer, deadline, fetchLog, response, bodyVars>>
    /\ UNCHANGED <<req, sideVars>>

\* reader.read() reports done: the buffer is decoded to the page doc and the
\* candidates are tried in order.
ReturnPreview(doc, preview) ==
    /\ conn' = "closed"
    /\ html' = Some(doc)
    /\ stage' = IF IsSome(preview) THEN "ok" ELSE "noMatch"
    /\ FinishPost(reqUrl, reqPhoto, [thrown |-> FALSE, result |-> preview])

BodyEnds(doc) ==
    /\ kind = "post"
    /\ pc = "reading"
    /\ DocBytes(doc) <= totalSize
    /\ ReturnPreview(doc, PreviewFromHtml(doc, Val(reqUrl)))
    /\ UNCHANGED <<reqVars, now, started, timer, deadline, fetchLog, response, reads,
                   totalSize, chunks>>
    /\ UNCHANGED <<req, sideVars>>

\* Time passes while a retrieval is pending.  The clock does not run past the
\* deadline of an armed timer: the timer callback runs first.
Tick ==
    /\ pc \in {"awaitHeaders", "reading"}
    /\ ~(timer = "armed" /\ now >= deadline)
    /\ now - started <= TimeoutMs
    /\ now' = IF timer = "armed" /\ now + TickMs > deadline THEN deadline ELSE now + TickMs
    /\ UNCHANGED <<reqVars, pc, started, timer, deadline, fetchLog, conn, response,
                   bodyVars, stage, thrown, result, kv, photos, httpResp, req, storeOps,
                   sideVars>>

(***************************************************************************)
(* The title lookup, GET /extract-title?url=...  Its handler is not part   *)
(* of the sources at hand; it is modelled from the specification (validate,*)
(* bounded fetch with a time budget over the whole retrieval, parse) and   *)
(* from the responses the worker's tests expect.                           *)
(***************************************************************************)
TitleTagText(page, hits) ==
    IF hits = {} THEN None ELSE Some(DecodeEntities(page[MinOf(hits)].text))

TitleTagOf(page) ==
    TitleTagText(page, {i \in 1..Len(page) : page[i].tag = "title" /\ page[i].text # ""})

\* Variant: the <title> text is preferred to the meta tags.
ExtractTitle_TagFirst(page, url) ==
    OrElse(TitleTagOf(page),
           OrElse(extractMetaContent(page, "og:title", None),
                  OrElse(extractMetaContent(page, "twitter:title", Some("twitter:title")),
                         Some(URLParse(url).hostname))))

\* og:title, then twitter:title, then the <title> text, then the hostname.
ExtractTitle(page, url) ==
    OrElse(extractMetaContent(page, "og:title", None),
           OrElse(extractMetaContent(page, "twitter:title", Some("twitter:title")),
                  OrElse(TitleTagOf(page), Some(URLParse(url).hostname))))

\* Variant: every failure is reported alike.
TitleError_Generic(stg) == [status |-> 500, error |-> "Failed to extract title"]

TitleError(stg) ==
    CASE stg = "missing" -> [status |-> 400, error |-> "URL parameter required"]
      [] stg = "validation" -> [status |-> 400, error |-> "Invalid URL"]
      [] stg = "timeout" -> [status |-> 408, error |-> "Request timed out"]
      [] stg = "notHtml" -> [status |-> 400, error |-> "URL does not return HTML"]
      [] OTHER -> [status |-> 500, error |-> "Failed to extract title"]

FailTitle(stg) ==
    /\ pc' = "done"
    /\ stage' = stg
    /\ result' = None
    /\ httpResp' = Some([status |-> TitleError(stg).status,
                         body |-> [error |-> TitleError(stg).error]])
    /\ UNCHANGED <<thrown, kv, photos>>

TitleRequest(u) ==
    /\ pc = "idle"
    /\ req' = Some([method |-> "GET", path |-> "/extract-title", auth |-> Some(API_SECRET)])
    /\ kind' = "title"
    /\ reqUrl' = u
    /\ IF ~IsSome(u) \/ Val(u) = "" THEN
           /\ FailTitle("missing")
           /\ UNCHANGED <<started, timer, deadline, fetchLog, conn>>
       ELSE IF ~isValidUrl(Val(u)) THEN
           /\ FailTitle("validation")
           /\ UNCHANGED <<started, timer, deadline, fetchLog, conn>>
       ELSE
           /\ timer' = "armed"
           /\ deadline' = now + TimeoutMs
           /\ started' = now
           /\ fetchLog' = Append(fetchLog, Val(u))
           /\ conn' = "pending"
           /\ pc' = "awaitHeaders"
           /\ UNCHANGED <<stage, thrown, result, kv, photos, httpResp>>
    /\ UNCHANGED <<reqPhoto, now, response, bodyVars, storeOps, sideVars>>

TitleFetchRejects ==
    /\ kind = "title"
    /\ pc \in {"awaitHeaders", "reading"}
    /\ ~(timer = "armed" /\ now >= deadline)
    /\ timer' = "cleared"
    /\ conn' = "failed"
    /\ FailTitle("network")
    /\ UNCHANGED <<reqVars, now, started, deadline, fetchLog, response, bodyVars>>
    /\ UNCHANGED <<req, storeOps, sideVars>>

\* The time budget covers headers and body alike.
TitleTimerFires ==
    /\ kind = "title"
    /\ pc \in {"awaitHeaders", "reading"}
    /\ timer = "armed"
    /\ now >= deadline
    /\ timer' = "fired"
    /\ conn' = "aborted"
    /\ FailTitle("timeout")
    /\ UNCHANGED <<reqVars, now, started, deadline, fetchLog, response, bodyVars>>
    /\ UNCHANGED <<req, storeOps, sideVars>>

TitleHeadersArrive(status, contentType) ==
    /\ kind = "title"
    /\ pc = "awaitHeaders"
    /\ ~(timer = "armed" /\ now >= deadline)
    /\ response' = Some([status |-> status, contentType |-> contentType])
    /\ IF Ok(status) /\ Includes(contentType, "text/html") THEN
           /\ pc' = "reading"
           /\ conn' = "open"
           /\ reads' = 1
           /\ UNCHANGED <<timer, stage, thrown, result, kv, photos, httpResp>>
       ELSE
           /\ timer' = "cleared"
           /\ conn' = "cancelled"
           /\ FailTitle(IF Ok(status) THEN "notHtml" ELSE "status")
           /\ UNCHANGED reads
    /\ UNCHANGED <<reqVars, now, started, deadline, fetchLog, totalSize, chunks, html>>
    /\ UNCHANGED <<req, storeOps, sideVars>>

TitleChunkArrives(size) ==
    /\ kind = "title"
    /\ pc = "reading"
    /\ ~(timer = "armed" /\ now >= deadline)
    /\ Len(chunks) < MaxChunks
    /\ totalSize' = totalSize + size
    /\ IF totalSize + size > MAX_HTML_SIZE THEN
           /\ timer' = "cleared"
           /\ conn' = "cancelled"
           /\ FailTitle("tooLarge")
           /\ UNCHANGED <<chunks, reads>>
       ELSE
           /\ chunks' = Append(chunks, size)
           /\ reads' = reads + 1
           /\ UNCHANGED <<pc, timer, conn, stage, thrown, result, kv, photos, httpResp>>
    /\ UNCHANGED <<reqVars, now, started, deadline, fetchLog, response, html>>
    /\ UNCHANGED <<req, storeOps, sideVars>>

TitleBodyEnds(doc) ==
    /\ kind = "title"
    /\ pc = "reading"
    /\ ~(timer = "armed" /\ now >= deadline)
    /\ DocBytes(doc) <= totalSize
    /\ timer' = "cleared"
    /\ conn' = "closed"
    /\ html' = Some(doc)
    /\ pc' = "done"
    /\ stage' = "ok"
    /\ result' = ExtractTitle(doc, Val(reqUrl))
    /\ httpResp' = Some([status |-> 200, body |-> [title |-> Val(result')]])
    /\ UNCHANGED <<reqVars, now, started, deadline, fetchLog, response, reads,
                   totalSize, chunks, thrown, kv, photos>>
    /\ UNCHANGED <<req, storeOps, sideVars>>

\* The steps of the remote server and of the clock.
Remote(docs) ==
    \/ FetchRejects
    \/ TimerFires
    \/ \E st \in Statuses, ct \in ContentTypes : HeadersArrive(st, ct)
    \/ \E n \in ChunkSizes : ChunkArrives(n)
    \/ BodyFails
    \/ \E doc \in docs : BodyEnds(doc)
    \/ TitleFetchRejects
    \/ TitleTimerFires
    \/ \E st \in Statuses, ct \in ContentTypes : TitleHeadersArrive(st, ct)
    \/ \E n \in ChunkSizes : TitleChunkArrives(n)
    \/ \E doc \in docs : TitleBodyEnds(doc)
    \/ Tick

Opt(S) == {None} \cup {Some(x) : x \in S}

\* Few urls, every page.
Next ==
    \/ \E u \in Opt(PageUrls), photo \in BOOLEAN : PostRecipes(u, photo)
    \/ \E u \in Opt(PageUrls) : TitleRequest(u)
    \/ Remote(Docs)

Spec == Init /\ [][Next]_vars

\* Every url, few pages.
FewDocs == {d \in Docs : Len(d) <= 1}

NextUrls ==
    \/ \E u \in Opt(Urls), photo \in BOOLEAN : PostRecipes(u, photo)
    \/ \E u \in Opt(Urls) : TitleRequest(u)
    \/ Remote(FewDocs)

SpecUrls == Init /\ [][NextUrls]_vars

(***************************************************************************)
(* What the properties below speak about, stated without the validator.    *)
(***************************************************************************)
\* The scheme as written: the text before the first colon (the urls drawn
\* are in lower case).
SchemeOf(u) == Before(u, IndexOf(u, ":"))

StripBrackets(h) ==
    IF StartsWith(h, "[") /\ Len(h) >= 2 THEN SubSeq(h, 2, Len(h) - 1) ELSE h

\* The host a request to u goes to (an IPv6 literal without its brackets).
HostOf(u) == StripBrackets(URLParse(u).hostname)

IsIpv4(h) == IsSome(ipv4Regex(h))

\* The leading 16 bits of an address, and membership in base/bits for
\* bits <= 16 (every range below is that wide).
High16(o) == o[1] * 256 + o[2]
InCidr(h, base, bits) ==
    IsIpv4(h) /\ High16(Val(ipv4Regex(h))) \div (2 ^ (16 - bits)) = High16(base) \div (2 ^ (16 - bits))

PrivateOrLinkLocal(h) ==
    \/ InCidr(h, <<10, 0, 0, 0>>, 8)
    \/ InCidr(h, <<172, 16, 0, 0>>, 12)
    \/ InCidr(h, <<192, 168, 0, 0>>, 16)
    \/ InCidr(h, <<169, 254, 0, 0>>, 16)

Loopback8(h) == InCidr(h, <<127, 0, 0, 0>>, 8)

\* A request that carries a non-empty url has been received.
HasUrl == kind # "none" /\ IsSome(reqUrl) /\ Val(reqUrl) # ""

Rejected == pc = "done" /\ stage = "validation" /\ fetchLog = << >>

Fetched(u) == \E i \in 1..Len(fetchLog) : fetchLog[i] = u

Pending == pc \in {"awaitHeaders", "reading"}

(***************************************************************************)
(* C1.  A url whose scheme is not http or https is rejected by validation, *)
(* and neither the preview extraction of POST /recipes nor the title       *)
(* lookup issues an outbound fetch for it.                                 *)
(***************************************************************************)
C1_NonHttpSchemeNeverFetched ==
    /\ \A i \in 1..Len(fetchLog) : SchemeOf(fetchLog[i]) \in {"http", "https"}
    /\ (HasUrl /\ SchemeOf(Val(reqUrl)) \notin {"http", "https"}) =>
           (~isValidUrl(Val(reqUrl)) /\ Rejected)

C1_Witness ==
    /\ kind = "post"
    /\ reqUrl = Some("file:///etc/passwd")
    /\ Rejected
    /\ Val(httpResp).status = 200

(***************************************************************************)
(* C2.  A url whose host is a literal IPv4 address in 10.0.0.0/8,          *)
(* 172.16.0.0/12, 192.168.0.0/16 or 169.254.0.0/16, or is localhost,       *)
(* 127.0.0.1 or ::1, is rejected and never fetched.                        *)
(***************************************************************************)
C2_Blocked(h) == h \in {"localhost", "127.0.0.1", "::1"} \/ PrivateOrLinkLocal(h)

C2_BlockedHostNeverFetched ==
    /\ \A i \in 1..Len(fetchLog) : ~C2_Blocked(HostOf(fetchLog[i]))
    /\ (HasUrl /\ C2_Blocked(HostOf(Val(reqUrl)))) => Rejected

(***************************************************************************)
(* C3.  Validation rejects every literal address in 127.0.0.0/8, and       *)
(* accepts a literal IPv4 host outside the blocked ranges and every        *)
(* hostname that is no IP literal (other than localhost).                  *)
(***************************************************************************)
C3_Accepted == pc # "idle" /\ stage # "validation"

C3_HostPolicy(h) ==
    /\ Loopback8(h) => Rejected
    /\ (IsIpv4(h) /\ ~Loopback8(h) /\ ~PrivateOrLinkLocal(h)) => C3_Accepted
    /\ (~IsIpv4(h) /\ ~Includes(h, ":") /\ h # "localhost") => C3_Accepted

C3_LoopbackRangeBlocked ==
    (HasUrl /\ SchemeOf(Val(reqUrl)) \in {"http", "https"} /\ URLParse(Val(reqUrl)).ok)
        => C3_HostPolicy(HostOf(Val(reqUrl)))

(***************************************************************************)
(* C4.  extractPreviewImage never returns a url that isValidUrl rejects,   *)
(* so the previewImage of the record POST /recipes stores, and of its      *)
(* response, passes validation.                                            *)
(***************************************************************************)
PassesOrAbsent(o) == IsSome(o) => isValidUrl(Val(o))

C4_PreviewImageValidated ==
    kind = "post" =>
        /\ PassesOrAbsent(result)
        /\ \A id \in DOMAIN kv : PassesOrAbsent(kv[id].previewImage)
        /\ IsSome(httpResp) => PassesOrAbsent(Val(httpResp).body.previewImage)

\* The page points og:image at a private address; the twitter:image is stored.
C4_Witness ==
    /\ kind = "post"
    /\ pc = "done"
    /\ html = Some(<< Meta(<<"property", "og:image">>, <<"content", "http://192.168.1.1/og.png">>),
                      Meta(<<"name", "twitter:image">>, <<"content", "https://cdn.example.com/tw.jpg">>) >>)
    /\ kv["r1"].previewImage = Some("https://cdn.example.com/tw.jpg")

(***************************************************************************)
(* C5.  No extraction call stays pending past its time budget, whether the *)
(* response stalls before the headers or while the body is read.           *)
(***************************************************************************)
C5_NoCallOutlivesBudget == Pending => now - started <= TimeoutMs

(***************************************************************************)
(* C6.  The buffer never holds more than MAX_HTML_SIZE bytes; when the     *)
(* bytes read exceed the limit the read is cancelled and the call ends     *)
(* with no image and no title; a body of exactly the limit is buffered     *)
(* whole and processed.                                                    *)
(***************************************************************************)
C6_ByteLimit ==
    /\ Sum(chunks) <= MAX_HTML_SIZE
    /\ totalSize > MAX_HTML_SIZE =>
           /\ pc = "done" /\ stage = "tooLarge" /\ conn = "cancelled"
           /\ result = None /\ html = None
           /\ kind = "post" => kv["r1"].previewImage = None
           /\ kind = "title" => Val(httpResp).status = 500
    /\ totalSize <= MAX_HTML_SIZE => (Sum(chunks) = totalSize /\ stage # "tooLarge")

\* A body of exactly the limit yields its image.
C6_Witness ==
    /\ kind = "post"
    /\ pc = "done"
    /\ totalSize = MAX_HTML_SIZE
    /\ stage = "ok"
    /\ IsSome(kv["r1"].previewImage)

(***************************************************************************)
(* C7.  The body is read only after both header checks have passed: after  *)
(* a non-2xx status, or a content type that does not declare text/html,    *)
(* the call has ended without a single read.                               *)
(***************************************************************************)
C7_HeadersOk(r) == Ok(r.status) /\ Includes(r.contentType, "text/html")

C7_NoReadBeforeHeaderChecks ==
    /\ reads > 0 => (IsSome(response) /\ C7_HeadersOk(Val(response)))
    /\ (IsSome(response) /\ ~C7_HeadersOk(Val(response))) =>
           (pc = "done" /\ reads = 0 /\ result = None /\ totalSize = 0)

C7_Witness ==
    /\ kind = "post"
    /\ response = Some([status |-> 200, contentType |-> "application/json"])
    /\ stage = "notHtml"
    /\ reads = 0

(***************************************************************************)
(* C8.  Whatever stage the preview extraction fails at, it returns no      *)
(* image and throws nothing, and the POST that triggered it has stored the *)
(* recipe without a previewImage and answered 200.                         *)
(***************************************************************************)
FailureStages ==
    {"validation", "network", "timeout", "status", "notHtml", "tooLarge", "noMatch"}

C8_ExtractionFailureSwallowed ==
    (kind = "post" /\ stage \in FailureStages) =>
        /\ pc = "done"
        /\ ~thrown
        /\ result = None
        /\ DOMAIN kv = {"r1"}
        /\ kv["r1"].url = reqUrl
        /\ kv["r1"].previewImage = None
        /\ httpResp = Some([status |-> 200, body |-> kv["r1"]])

C8_Witness ==
    /\ kind = "post"
    /\ stage = "timeout"
    /\ conn = "aborted"
    /\ httpResp = Some([status |-> 200, body |-> kv["r1"]])

(***************************************************************************)
(* C9.  As claimed: the preview image is taken from the highest-priority   *)
(* kind present in the page (og:image, then twitter:image, then the        *)
(* generic image/thumbnail tag).                                           *)
(***************************************************************************)
Parsed == kind = "post" /\ pc = "done" /\ IsSome(html)

C9_FromKindPresent(og, twitter, generic, url) ==
    result = IF IsSome(og) THEN Candidate(og, url)
             ELSE IF IsSome(twitter) THEN Candidate(twitter, url)
             ELSE Candidate(generic, url)

C9_FirstUsable(cands) ==
    /\ IsSome(result) =>
           \E k \in 1..3 : /\ result = cands[k]
                           /\ \A j \in 1..(k - 1) : cands[j] = None
    /\ result = None => \A k \in 1..3 : cands[k] = None

Reverse(q) == [i \in 1..Len(q) |-> q[Len(q) + 1 - i]]

\* The image kind an element belongs to ("" for none).
KindOf(e) ==
    IF e.tag # "meta" THEN ""
    ELSE IF \E i \in 1..2 : e.attrs[i][2] = "og:image" THEN "og"
    ELSE IF \E i \in 1..2 : e.attrs[i][2] = "twitter:image" THEN "twitter"
    ELSE IF \E i \in 1..2 : e.attrs[i][2] \in {"image", "thumbnail"} THEN "generic"
    ELSE ""

DistinctKinds(doc) ==
    \A i, j \in 1..Len(doc) : (i # j /\ KindOf(doc[i]) # "") => KindOf(doc[i]) # KindOf(doc[j])

C10_OgOrNothing(og, url) ==
    IsSome(og) => result \in {None, Some(resolveUrl(Val(og), url))}

C10_NoLaterCandidateAfterOg ==
    Parsed => C10_OgOrNothing(OgImage(Val(html)), Val(reqUrl))

(***************************************************************************)
(* C10, amended.  When the page contains an og:image value whose resolved  *)
(* url passes validation, the result is that url; a value from a           *)
(* twitter:image or generic tag is returned only if the og:image value is  *)
(* absent or its resolved url fails validation.                            *)
(***************************************************************************)
C10_OgDecides(og, url) ==
    /\ (IsSome(og) /\ isValidUrl(resolveUrl(Val(og), url))) =>
           result = Some(resolveUrl(Val(og), url))
    /\ (IsSome(og) /\ ~isValidUrl(resolveUrl(Val(og), url))) =>
           result # Some(resolveUrl(Val(og), url))

C10_ValidOgImageDecides ==
    Parsed => C10_OgDecides(OgImage(Val(html)), Val(reqUrl))

\* A relative og:image, content attribute first, beats the generic tag.
C10_Witness ==
    /\ Parsed
    /\ reqUrl = Some("http://example.com:8080/recipe")
    /\ html = Some(<< Meta(<<"property", "image">>, <<"content", "//cdn.example.com/gen.png">>),
                      Meta(<<"content", "/img/og2.png?a=1&amp;b=2">>, <<"property", "og:image">>) >>)
    /\ result = Some("http://example.com:8080/img/og2.png?a=1&b=2")

(***************************************************************************)
(* C11.  The title lookup answers with the og:title value if the page has  *)
(* one, else the twitter:title value, else the text of the <title> tag,    *)
(* else the hostname of the requested url; the last case is a 200 answer   *)
(* like the others.                                                        *)
(***************************************************************************)
\* The value of the content attribute of a meta element.
ContentOf(e) == IF e.attrs[1][1] = "content" THEN e.attrs[1][2] ELSE e.attrs[2][2]

\* The decoded, non-empty contents of the meta elements of doc that carry key
\* in one of the attributes attrs.
MetaValues(doc, attrs, key) ==
    {DecodeEntities(ContentOf(doc[i])) :
        i \in {j \in 1..Len(doc) : /\ doc[j].tag = "meta"
                                   /\ ContentOf(doc[j]) # ""
                                   /\ \E a \in attrs, n \in 1..2 : doc[j].attrs[n] = <<a, key>>}}

TitleTexts(doc) ==
    {DecodeEntities(doc[i].text) : i \in {j \in 1..Len(doc) : doc[j].tag = "title"}}

TitleDone == kind = "title" /\ pc = "done" /\ IsSome(html)

C11_Chain(title, og, twitter, tag, hostname) ==
    IF og # {} THEN title \in og
    ELSE IF twitter # {} THEN title \in twitter
    ELSE IF tag # {} THEN title \in tag
    ELSE title = hostname

C11_TitleFallbackOrder ==
    TitleDone =>
        /\ httpResp = Some([status |-> 200, body |-> [title |-> Val(result)]])
        /\ C11_Chain(Val(result),
                     MetaValues(Val(html), {"property"}, "og:title"),
                     MetaValues(Val(html), {"property", "name"}, "twitter:title"),
                     TitleTexts(Val(html)),
                     URLParse(Val(reqUrl)).hostname)

\* A page with a <title> and a twitter:title: the twitter:title is returned.
C11_Witness ==
    /\ TitleDone
    /\ html = Some(<< TitleTag("Soup &amp; Bread"),
                      Meta(<<"name", "twitter:title">>, <<"content", "Soup from Twitter">>) >>)
    /\ Val(httpResp).body.title = "Soup from Twitter"

\* A page without any title field: the hostname, as a 200 answer.
C11_HostnameWitness ==
    /\ TitleDone
    /\ html = Some(<< >>)
    /\ httpResp = Some([status |-> 200, body |-> [title |-> "example.com"]])

(***************************************************************************)
(* C12.  The title lookup answers invalid input, timeout, payload too      *)
(* large and not-HTML with error results that differ from one another: the *)
(* answer to one of these failures is never the answer another of them     *)
(* gets, and it carries no title.                                          *)
(***************************************************************************)
C12_Kinds == {"validation", "timeout", "tooLarge", "notHtml"}

C12_AnswerTo(stg) ==
    Some([status |-> TitleError(stg).status, body |-> [error |-> TitleError(stg).error]])

BaseUrls == {"https://example.com/recipe-page", "http://example.com:8080/recipe"}

ImageRefs ==
    { "//cdn.example.com/image.jpg", "/images/preview.jpg", "images/preview.jpg",
      "thumb.png", "https://cdn.example.com/a.png", "http://cdn.example.com/a.png",
      "data:image/png;base64,AAAA", "ftp://cdn.example.com/a.png", "httpimages/a.png" }

\* (property, name) of the four extractMetaContent calls of the image chain.
ChainCalls ==
    { <<"og:image", None>>, <<"twitter:image", Some("twitter:image")>>,
      <<"image", None>>, <<"thumbnail", Some("thumbnail")>> }

\* A meta tag with its key in attribute attr, before or after content.
MetaAs(attr, key, keyFirst, content) ==
    IF keyFirst THEN Meta(<<attr, key>>, <<"content", content>>)
    ELSE Meta(<<"content", content>>, <<attr, key>>)

EntityTexts ==
    { "https://example.com/image?param=value&amp;other=test", "&lt;b&gt;", "&quot;q&quot;",
      "it&#x27;s", "a&#x2F;b", "a&amp;lt;b", "&amp;amp;", "&amp;#x27;", "&nbsp;&copy;", "a&b" }

PureElems ==
    {MetaAs(a, c[1], o, t) : a \in {"property", "name"}, c \in ChainCalls,
                             o \in BOOLEAN, t \in {"pic.png", ""}}
    \cup {MetaAs("property", "og:image", TRUE, t) : t \in EntityTexts}

PureDocs == {<< >>} \cup {<<e>> : e \in PureElems}

ApplyResolveUrl(imageUrl, baseUrl) ==
    /\ pc = "idle"
    /\ applied' = Some([fn |-> "resolveUrl", args |-> <<imageUrl, baseUrl>>,
                        ret |-> resolveUrl(imageUrl, baseUrl)])
    /\ UNCHANGED <<kind, pc, reqUrl, reqPhoto, now, started, timer, deadline, fetchLog,
                   conn, response, bodyVars, stage, thrown, result, kv, photos, httpResp,
                   req, storeOps, calls, patches, ui>>

ApplyExtractMetaContent(doc, property, name) ==
    /\ pc = "idle"
    /\ applied' = Some([fn |-> "extractMetaContent", args |-> <<doc, property, name>>,
                        ret |-> extractMetaContent(doc, property, name)])
    /\ UNCHANGED <<kind, pc, reqUrl, reqPhoto, now, started, timer, deadline, fetchLog,
                   conn, response, bodyVars, stage, thrown, result, kv, photos, httpResp,
                   req, storeOps, calls, patches, ui>>

NextPure ==
    \/ \E i \in ImageRefs, b \in BaseUrls : ApplyResolveUrl(i, b)
    \/ \E d \in PureDocs, c \in ChainCalls : ApplyExtractMetaContent(d, c[1], c[2])

SpecPure == Init /\ [][NextPure]_vars

Resolved == IsSome(applied) /\ Val(applied).fn = "resolveUrl"
Extracted == IsSome(applied) /\ Val(applied).fn = "extractMetaContent"

\* Whether u starts with a scheme and a colon.
HasScheme(u) == IndexOf(u, ":") > 1 /\ IsScheme(SubSeq(u, 1, IndexOf(u, ":") - 1))

\* scheme://host[:port] of a page url.
OriginOf(u) == SchemeOf(u) \o "://" \o URLParse(u).host

(***************************************************************************)
(* C13.  A protocol-relative image reference (//host/path) is resolved     *)
(* with the scheme of the page url: https on an https page, http on an     *)
(* http page.                                                              *)
(***************************************************************************)
C13_Inherits(imageUrl, baseUrl, ret) ==
    StartsWith(imageUrl, "//") => ret = SchemeOf(baseUrl) \o ":" \o imageUrl

C13_ProtocolRelativeInheritsScheme ==
    Resolved => C13_Inherits(Val(applied).args[1], Val(applied).args[2], Val(applied).ret)

(***************************************************************************)
(* C14.  A reference beginning with a single / resolves to the page's      *)
(* scheme and host followed by it, a bare relative path to the page's      *)
(* scheme and host, a / and the path, and an absolute url is returned      *)
(* unchanged.                                                              *)
(***************************************************************************)
C14_Case(imageUrl, baseUrl, ret) ==
    IF StartsWith(imageUrl, "//") THEN TRUE
    ELSE IF StartsWith(imageUrl, "/") THEN ret = OriginOf(baseUrl) \o imageUrl
    ELSE IF HasScheme(imageUrl) THEN ret = imageUrl
    ELSE ret = OriginOf(baseUrl) \o "/" \o imageUrl

C14_ResolveCases ==
    Resolved => C14_Case(Val(applied).args[1], Val(applied).args[2], Val(applied).ret)

(***************************************************************************)
(* C15.  The extracted value is decoded in one pass: each occurrence of    *)
(* &amp; &lt; &gt; &quot; &#x27; &#x2F; becomes its character, every other *)
(* character stays, and text produced by a replacement is not decoded      *)
(* again (&amp;lt; gives &lt;).                                            *)
(***************************************************************************)
Entities ==
    << <<"&amp;", "&">>, <<"&lt;", "<">>, <<"&gt;", ">">>, <<"&quot;", "\"">>,
       <<"&#x27;", "'">>, <<"&#x2F;", "/">> >>

EntityAt(s) == {k \in 1..Len(Entities) : StartsWith(s, Entities[k][1])}

RECURSIVE DecodeOnce(_)
DecodeOnce(s) ==
    IF s = "" THEN ""
    ELSE IF EntityAt(s) # {}
    THEN Entities[MinOf(EntityAt(s))][2]
         \o DecodeOnce(Tail_(s, Len(Entities[MinOf(EntityAt(s))][1]) + 1))
    ELSE SubSeq(s, 1, 1) \o DecodeOnce(Tail_(s, 2))

\* The call found the tag of a one-element page.
Found(a) == Len(a.args[1]) = 1 /\ IsSome(a.ret)

C15_DecodedOnce ==
    (Extracted /\ Found(Val(applied))) =>
        Val(Val(applied).ret) = DecodeOnce(ContentOf(Val(applied).args[1][1]))

(***************************************************************************)
(* C16.  As claimed: for every key of the image chain a meta tag is        *)
(* matched whether the key is in a property or in a name attribute, before *)
(* or after the content attribute.                                         *)
(***************************************************************************)
\* The one-element page holds a tag for the key asked for, with a value.
C16_Asked(a) ==
    /\ Len(a.args[1]) = 1
    /\ ContentOf(a.args[1][1]) # ""
    /\ \E n \in 1..2 : /\ a.args[1][1].attrs[n][2] = a.args[2]
                       /\ a.args[1][1].attrs[n][1] \in {"property", "name"}

C16_InName(a) == \E n \in 1..2 : a.args[1][1].attrs[n][1] = "name"

C16_MatchedInEitherAttribute ==
    (Extracted /\ C16_Asked(Val(applied))) => IsSome(Val(applied).ret)

(***************************************************************************)
(* C16, amended.  A meta tag is matched whether its key attribute comes    *)
(* before or after the content attribute; twitter:image and thumbnail are  *)
(* matched in a property or a name attribute, og:image and image only in a *)
(* property attribute.                                                     *)
(***************************************************************************)
C16_NameAllowed(a) == a.args[2] \in {"twitter:image", "thumbnail"}

C16_MatchedPerKey ==
    (Extracted /\ C16_Asked(Val(applied))) =>
        (IsSome(Val(applied).ret) <=> (~C16_InName(Val(applied)) \/ C16_NameAllowed(Val(applied))))

\* thumbnail in a name attribute after content is found.
C16_Witness ==
    /\ Extracted
    /\ Val(applied).args = << <<Meta(<<"content", "pic.png">>, <<"name", "thumbnail">>)>>,
                              "thumbnail", Some("thumbnail") >>
    /\ Val(applied).ret = Some("pic.png")

(***************************************************************************)
(* Several extractPreviewImage calls in flight at once (one per request    *)
(* the worker is serving).  Everything a call works with is local to it:   *)
(* its AbortController and timer, its response, its reader, chunks and     *)
(* totalSize.  calls maps a call to that local state.                      *)
(***************************************************************************)
PairUrls == {"https://example.com/page", "http://10.0.0.1/r"}
PairHeaders == { <<200, "text/html; charset=utf-8">>, <<404, "text/html; charset=utf-8">>,
                 <<200, "application/json">> }
PairChunkSizes == {HalfSize, MAX_HTML_SIZE + 1}
PairDocs == { << >>,
              << Meta(<<"property", "og:image">>, <<"content", "https://cdn.example.com/og.jpg">>) >> }

InFlight(c) == calls[c].pc \in {"awaitHeaders", "reading"}
Due(c) == calls[c].timer = "armed" /\ now >= calls[c].deadline
NoneDue == \A c \in CallIds : ~Due(c)

\* The call ends: its local state is final.
Ended(call, stg, res) == [call EXCEPT !.pc = "done", !.stage = stg, !.result = res]

OthersUnchanged ==
    UNCHANGED <<kind, pc, reqUrl, reqPhoto, started, timer, deadline, conn, response,
                bodyVars, stage, thrown, result, kv, photos, httpResp, req, storeOps,
                applied, patches, ui>>

\* extractPreviewImage(u) is called: validation, then its own controller and
\* timer, then fetch.
CallStarts(c, u) ==
    /\ calls[c].pc = "idle"
    /\ IF ~isValidUrl(u) THEN
           /\ calls' = [calls EXCEPT ![c] = Ended([IdleCall EXCEPT !.url = u], "validation", None)]
           /\ UNCHANGED fetchLog
       ELSE
           /\ calls' = [calls EXCEPT ![c] = [IdleCall EXCEPT !.url = u, !.pc = "awaitHeaders",
                                              !.timer = "armed", !.deadline = now + TimeoutMs]]
           /\ fetchLog' = Append(fetchLog, u)
    /\ UNCHANGED now
    /\ OthersUnchanged

\* Which calls the abort of call c's controller reaches: the controller is a
\* local constant of the call.
AbortedBy_Shared(c, d) == TRUE

AbortedBy(c, d) == c = d

\* The timer of call c fires while its fetch is pending.
CallTimerFires(c) ==
    /\ calls[c].pc = "awaitHeaders"
    /\ Due(c)
    /\ calls' = [d \in CallIds |->
                    IF d = c THEN [Ended(calls[d], "timeout", CatchAll("AbortError").result)
                                      EXCEPT !.timer = "fired"]
                    ELSE IF AbortedBy(c, d) /\ InFlight(d)
                    THEN Ended(calls[d], "timeout", CatchAll("AbortError").result)
                    ELSE calls[d]]
    /\ UNCHANGED <<now, fetchLog>>
    /\ OthersUnchanged

CallFails(c) ==
    /\ InFlight(c)
    /\ calls' = [calls EXCEPT ![c] = Ended(calls[c], "network", CatchAll("TypeError").result)]
    /\ UNCHANGED <<now, fetchLog>>
    /\ OthersUnchanged

CallHeadersArrive(c, status, contentType) ==
    /\ calls[c].pc = "awaitHeaders"
    /\ ~Due(c)
    /\ calls' = [calls EXCEPT ![c] =
           IF HeaderCheck(status, contentType) = "read"
           THEN [calls[c] EXCEPT !.timer = "cleared", !.pc = "reading",
                                 !.response = Some([status |-> status, contentType |-> contentType])]
           ELSE [Ended(calls[c], HeaderCheck(status, contentType), None)
                    EXCEPT !.timer = "cleared",
                           !.response = Some([status |-> status, contentType |-> contentType])]]
    /\ UNCHANGED <<now, fetchLog>>
    /\ OthersUnchanged

CallChunkArrives(c, size) ==
    /\ calls[c].pc = "reading"
    /\ calls[c].nChunks < MaxChunks
    /\ calls' = [calls EXCEPT ![c] =
           IF TooLarge(calls[c].totalSize + size)
           THEN [Ended(calls[c], "tooLarge", CatchAll("Error").result)
                    EXCEPT !.totalSize = calls[c].totalSize + size]
           ELSE [calls[c] EXCEPT !.totalSize = calls[c].totalSize + size,
                                 !.nChunks = calls[c].nChunks + 1]]
    /\ UNCHANGED <<now, fetchLog>>
    /\ OthersUnchanged

CallResult(call, doc, preview) ==
    [Ended(call, IF IsSome(preview) THEN "ok" ELSE "noMatch", preview) EXCEPT !.doc = Some(doc)]

CallBodyEnds(c, doc) ==
    /\ calls[c].pc = "reading"
    /\ DocBytes(doc) <= calls[c].totalSize
    /\ calls' = [calls EXCEPT ![c] = CallResult(calls[c], doc, PreviewFromHtml(doc, calls[c].url))]
    /\ UNCHANGED <<now, fetchLog>>
    /\ OthersUnchanged

\* Time passes up to the next timer that is due, at most two time budgets.
NextDeadlines == {calls[c].deadline : c \in {d \in CallIds : calls[d].timer = "armed"}}

PairTick ==
    /\ \E c \in CallIds : InFlight(c)
    /\ NoneDue
    /\ now < 2 * TimeoutMs
    /\ now' = IF \E t \in NextDeadlines : t <= now + TickMs
              THEN MinOf(NextDeadlines) ELSE now + TickMs
    /\ UNCHANGED <<calls, fetchLog>>
    /\ OthersUnchanged

NextPair ==
    \/ \E c \in CallIds, u \in PairUrls : CallStarts(c, u)
    \/ \E c \in CallIds : CallTimerFires(c)
    \/ \E c \in CallIds : CallFails(c)
    \/ \E c \in CallIds, h \in PairHeaders : CallHeadersArrive(c, h[1], h[2])
    \/ \E c \in CallIds, n \in PairChunkSizes : CallChunkArrives(c, n)
    \/ \E c \in CallIds, doc \in PairDocs : CallBodyEnds(c, doc)
    \/ PairTick

SpecPair == Init /\ [][NextPair]_vars

(***************************************************************************)
(* C17.  With several extraction calls in flight, the outcome of each call *)
(* is accounted for by its own url and its own response alone: a call ends *)
(* in a timeout only when its own timer is due, as too large only when its *)
(* own byte count passed the limit, and with the image of its own page.    *)
(***************************************************************************)
C17_OwnOutcome(call) ==
    call.pc = "done" =>
        /\ call.stage = "validation" <=> ~isValidUrl(call.url)
        /\ call.stage = "timeout" => (call.response = None /\ now >= call.deadline)
        /\ call.stage \in {"status", "notHtml"} =>
               (IsSome(call.response) /\ ~C7_HeadersOk(Val(call.response)))
        /\ call.stage = "tooLarge" =>
               (call.totalSize > MAX_HTML_SIZE /\ C7_HeadersOk(Val(call.response)))
        /\ call.stage \in {"ok", "noMatch"} =>
               /\ C7_HeadersOk(Val(call.response))
               /\ call.totalSize <= MAX_HTML_SIZE
               /\ call.result = PreviewFromHtml(Val(call.doc), call.url)
        /\ call.stage \notin {"ok", "noMatch"} => call.result = None

C17_CallsIndependent == \A c \in DOMAIN calls : C17_OwnOutcome(calls[c])

\* Call a timed out; call b, started while a was in flight, got its image.
C17_Witness ==
    /\ calls["a"].stage = "timeout"
    /\ calls["b"].stage = "ok"
    /\ calls["b"].deadline <= calls["a"].deadline + TimeoutMs
    /\ calls["b"].deadline > calls["a"].deadline
    /\ now < calls["b"].deadline
    /\ IsSome(calls["b"].result)

(***************************************************************************)
(* The worker's fetch handler, one request after another: CORS preflight,  *)
(* public photo reads, the Authorization check, GET and POST /recipes,     *)
(* PATCH /recipes/:id, and 404 for every other route.                      *)
(***************************************************************************)
\* How many recipes are posted.
MaxRecipes == 3

Methods == {"GET", "POST", "PATCH", "OPTIONS"}
Paths == {"/recipes", "/recipes/r1", "/recipes/r0", "/photos/p1", "/photos"}
Auths == {None, Some("wrong-secret"), Some(API_SECRET)}

\* A created value that new Date() turns into an Invalid Date.
InvalidDate == -1

\* The JSON bodies of PATCH requests: the fields to overwrite.
PatchBodies == { [deleted |-> TRUE], [deleted |-> FALSE], [created |-> InvalidDate] }

\* What a PATCH request carries: a JSON object, or text that is not JSON.
PatchInputs == {Some(b) : b \in PatchBodies} \cup {None}

\* The forms posted: a photo without a link, a link without a photo.
ApiForms == { [url |-> None, photo |-> TRUE],
              [url |-> Some("https://example.com/page"), photo |-> FALSE] }
ApiDocs == { << Meta(<<"property", "og:image">>, <<"content", "https://cdn.example.com/og.jpg">>) >> }

\* Variant: any Authorization header is accepted.
Authorized_AnyHeader(auth) == IsSome(auth)

\* !(!auth || auth !== env.API_SECRET)
Authorized(auth) == IsSome(auth) /\ Val(auth) # "" /\ Val(auth) = API_SECRET

IsPhotoPath(path) == StartsWith(path, "/photos/")

\* url.pathname.match(/^\/recipes\/(.+)$/)
RecipeMatch(path) ==
    IF StartsWith(path, "/recipes/") /\ Len(path) > Len("/recipes/")
    THEN Some(Tail_(path, Len("/recipes/") + 1)) ELSE None

\* A request handled without awaiting anything outside the stores.
AnswerTo(request, status, body, ops) ==
    /\ pc = "idle"
    /\ pc' = "done"
    /\ kind' = "api"
    /\ req' = Some(request)
    /\ httpResp' = Some([status |-> status, body |-> body])
    /\ storeOps' = ops
    /\ UNCHANGED <<reqUrl, reqPhoto, now, started, timer, deadline, fetchLog, conn, response,
                   bodyVars, stage, thrown, result, photos, sideVars>>

Answer(method, path, auth, status, body, ops) ==
    AnswerTo([method |-> method, path |-> path, auth |-> auth], status, body, ops)

Preflight(path, auth) ==
    /\ Answer("OPTIONS", path, auth, 200, "", << >>)
    /\ UNCHANGED kv

PhotoRequest(method, path, auth) ==
    /\ method # "OPTIONS"
    /\ IsPhotoPath(path)
    /\ Answer(method, path, auth,
              IF Tail_(path, 2) \in photos THEN 200 ELSE 404,
              IF Tail_(path, 2) \in photos THEN "photo" ELSE "Photo not found",
              << <<"PHOTOS", "get", Tail_(path, 2)>> >>)
    /\ UNCHANGED kv

Unauthorized(method, path, auth) ==
    /\ method # "OPTIONS"
    /\ ~IsPhotoPath(path)
    /\ ~Authorized(auth)
    /\ Answer(method, path, auth, 401, "Unauthorized", << >>)
    /\ UNCHANGED kv

\* env.RECIPES.list(): the keys in lexicographic order.
ListKeys == SelectSeq(RecipeIds, LAMBDA k : k \in DOMAIN kv)

\* recipe && !recipe.deleted ? { id: key.name, ...recipe } : null, then
\* filter(r => r !== null)
Kept(k) == ~kv[k].deleted

\* b.created - a.created as the sort sees it: its sign, 0 for NaN.
Cmp(a, b) ==
    IF kv[a].created = InvalidDate \/ kv[b].created = InvalidDate THEN 0
    ELSE IF kv[b].created < kv[a].created THEN -1
    ELSE IF kv[b].created > kv[a].created THEN 1
    ELSE 0

\* Whether the comparator is consistent on the set S.
Consistent(S) ==
    \A a, b, c \in S :
        /\ (Cmp(a, b) = 0 /\ Cmp(b, c) = 0) => Cmp(a, c) = 0
        /\ (Cmp(a, b) < 0 /\ Cmp(b, c) < 0) => Cmp(a, c) < 0

Range(q) == {q[i] : i \in 1..Len(q)}
PermsOf(q) ==
    {p \in [1..Len(q) -> Range(q)] : \A i, j \in 1..Len(q) : i # j => p[i] # p[j]}
PosIn(q, x) == MinOf({i \in 1..Len(q) : q[i] = x})

\* Array.prototype.sort: stable and by the comparator if it is consistent,
\* an implementation-defined order otherwise.
Sorted(q) ==
    IF Consistent(Range(q))
    THEN {p \in PermsOf(q) :
             \A i, j \in 1..Len(q) :
                 i < j => \/ Cmp(p[i], p[j]) < 0
                          \/ (Cmp(p[i], p[j]) = 0 /\ PosIn(q, p[i]) < PosIn(q, p[j]))}
    ELSE PermsOf(q)

Listed(order) == [i \in 1..Len(order) |-> [id |-> order[i], recipe |-> kv[order[i]]]]

\* Authorized GET /recipes.
GetRecipes(auth) ==
    /\ Authorized(auth)
    /\ \E order \in Sorted(SelectSeq(ListKeys, Kept)) :
           Answer("GET", "/recipes", auth, 200, Listed(order),
              << <<"RECIPES", "list", "">> >>
                  \o [i \in 1..Len(ListKeys) |-> <<"RECIPES", "get", ListKeys[i]>>])
    /\ UNCHANGED kv

\* Variant: the stored fields win over the fields of the body.
Merge_StoredWins(recipe, body) == recipe @@ body

\* { ...recipe, ...body }
Merge(recipe, body) == body @@ recipe

\* Variant: the record is written whether or not the id was found.
StoreAfterPatch_Upsert(found, id, body) ==
    IF IsSome(body)
    THEN (id :> Merge(IF found THEN kv[id] ELSE << >>, Val(body))) @@ kv
    ELSE kv

\* The recipe store after a PATCH of id: written only when the id was found
\* and the body parsed.
StoreAfterPatch(found, id, body) ==
    IF found /\ IsSome(body) THEN [kv EXCEPT ![id] = Merge(kv[id], Val(body))] ELSE kv

\* get; 404 if missing; request.json(), which throws on text that is not
\* JSON (the catch answers 500); merge; put; 200.
PatchOutcome(id, body) ==
    IF id \notin DOMAIN kv
    THEN [status |-> 404, body |-> "Recipe not found", ops |-> << <<"RECIPES", "get", id>> >>]
    ELSE IF ~IsSome(body)
    THEN [status |-> 500, body |-> "Unexpected token", ops |-> << <<"RECIPES", "get", id>> >>]
    ELSE [status |-> 200, body |-> [id |-> id, recipe |-> Merge(kv[id], Val(body))],
          ops |-> << <<"RECIPES", "get", id>>, <<"RECIPES", "put", id>> >>]

Patched(auth, id, body) ==
    /\ AnswerTo([method |-> "PATCH", path |-> "/recipes/" \o id, auth |-> auth, body |-> body],
                PatchOutcome(id, body).status, PatchOutcome(id, body).body,
                PatchOutcome(id, body).ops)
    /\ kv' = StoreAfterPatch(id \in DOMAIN kv, id, body)

\* Authorized PATCH /recipes/:id.
PatchRecipe(auth, path, body) ==
    /\ Authorized(auth)
    /\ IsSome(RecipeMatch(path))
    /\ Patched(auth, Val(RecipeMatch(path)), body)

\* Authorized requests no route serves.
NotFound(method, path, auth) ==
    /\ Authorized(auth)
    /\ method # "OPTIONS"
    /\ ~IsPhotoPath(path)
    /\ ~(path = "/recipes" /\ method \in {"GET", "POST"})
    /\ ~(IsSome(RecipeMatch(path)) /\ method = "PATCH")
    /\ Answer(method, path, auth, 404, "Not Found", << >>)
    /\ UNCHANGED kv

\* Authorized POST /recipes.
ApiPost(u, photo) ==
    /\ Cardinality(DOMAIN kv) < MaxRecipes
    /\ PostRecipes(u, photo)

\* The worker has answered; the next request arrives later.
NextRequest(later) ==
    /\ pc = "done"
    /\ later > 0 => kind = "post"
    /\ now' = now + later
    /\ kind' = "none"
    /\ pc' = "idle"
    /\ reqUrl' = None
    /\ reqPhoto' = FALSE
    /\ started' = 0
    /\ timer' = "none"
    /\ deadline' = 0
    /\ conn' = "none"
    /\ response' = None
    /\ reads' = 0
    /\ totalSize' = 0
    /\ chunks' = << >>
    /\ html' = None
    /\ stage' = "pending"
    /\ thrown' = FALSE
    /\ result' = None
    /\ httpResp' = None
    /\ req' = None
    /\ storeOps' = << >>
    /\ UNCHANGED <<fetchLog, kv, photos, sideVars>>

NextApi ==
    \/ \E p \in Paths, a \in Auths : Preflight(p, a)
    \/ \E m \in Methods, p \in Paths, a \in Auths : PhotoRequest(m, p, a)
    \/ \E m \in Methods, p \in Paths, a \in Auths : Unauthorized(m, p, a)
    \/ \E a \in Auths : GetRecipes(a)
    \/ \E form \in ApiForms : ApiPost(form.url, form.photo)
    \/ \E p \in Paths, a \in Auths, body \in PatchInputs : PatchRecipe(a, p, body)
    \/ \E m \in Methods, p \in Paths, a \in Auths : NotFound(m, p, a)
    \/ HeadersArrive(200, "text/html; charset=utf-8")
    \/ \E doc \in ApiDocs : ChunkArrives(DocBytes(doc))
    \/ \E doc \in ApiDocs : BodyEnds(doc)
    \/ \E later \in {0, 1000} : NextRequest(later)

SpecApi == Init /\ [][NextApi]_vars

\* The request being answered, and whether it carries the configured secret.
Answered == pc = "done" /\ kind = "api" /\ IsSome(req) /\ IsSome(httpResp)
BadAuth(r) == r.auth = None \/ Val(r.auth) # API_SECRET
Refused == Val(httpResp).status = 401 /\ storeOps = << >>

\* C18 as stated: every request other than a CORS preflight and a read (GET)
\* under /photos/ whose Authorization header is missing or differs from the
\* secret is answered 401 and performs no read or write of either store.
C18_OnlyPhotoReadsExempt ==
    (Answered /\ Val(req).method # "OPTIONS" /\ BadAuth(Val(req))
        /\ ~(Val(req).method = "GET" /\ IsPhotoPath(Val(req).path)))
    => Refused

C18_Guarded(r) == r.method # "OPTIONS" /\ ~IsPhotoPath(r.path) /\ BadAuth(r)

\* C18: every request other than a CORS preflight and a request whose path
\* begins with /photos/ (whatever its method), whose Authorization header is
\* missing or differs from the configured secret, is answered 401, performs no
\* read or write of the recipe store or the photo store, and starts no
\* outbound fetch.
C18_UnauthorizedRefused ==
    /\ [](Answered /\ C18_Guarded(Val(req)) => Refused)
    /\ [][(req' # req /\ IsSome(req') /\ C18_Guarded(Val(req')))
              => (kv' = kv /\ photos' = photos /\ fetchLog' = fetchLog
                    /\ Val(httpResp').status = 401)]_vars

\* A PATCH of a stored recipe with a wrong secret, refused, while the stores
\* hold a recipe and a photo and a page has been fetched before.
C18_Witness ==
    /\ Answered
    /\ Val(req) = [method |-> "PATCH", path |-> "/recipes/r1", auth |-> Some("wrong-secret")]
    /\ Val(httpResp).status = 401
    /\ "r1" \in DOMAIN kv
    /\ photos # {}
    /\ fetchLog # << >>

\* An authorized GET /recipes has been answered with the list.
ListAnswered ==
    /\ Answered
    /\ Val(req).method = "GET"
    /\ Val(req).path = "/recipes"
    /\ Val(httpResp).status = 200
ListedIds == {Val(httpResp).body[i].id : i \in 1..Len(Val(httpResp).body)}

\* C19: GET /recipes returns every stored recipe, including the recipes whose
\* deleted flag is true.
C19_ListsEveryRecipe == ListAnswered => ListedIds = DOMAIN kv

\* Entry a of the list was created before entry b: both created values are
\* dates and a's is the earlier one.
Older(a, b) ==
    /\ a.recipe.created # InvalidDate
    /\ b.recipe.created # InvalidDate
    /\ a.recipe.created < b.recipe.created

\* C20: the list returned by GET /recipes is ordered by creation time, newest
\* first, whatever POST and PATCH requests built the store: no entry is older
\* than an entry that comes after it.
C20_NewestFirst ==
    ListAnswered =>
        \A i, j \in 1..Len(Val(httpResp).body) :
            i < j => ~Older(Val(httpResp).body[i], Val(httpResp).body[j])

\* An extraction call of POST /recipes has returned through one of its early
\* exits.
EarlyExit == kind = "post" /\ pc = "done" /\ stage \in {"timeout", "tooLarge", "status", "notHtml"}

\* C25: on every early exit of a retrieval (timeout, byte limit exceeded,
\* non-2xx status, non-HTML content type) the response stream has been
\* cancelled when the call returns: no finished call leaves an open read.
C25_EarlyExitCancels == EarlyExit => conn \in {"aborted", "cancelled"}

\* A PATCH /recipes/:id is answered in this step.
PatchAnswered ==
    /\ req' # req
    /\ IsSome(req')
    /\ Val(req').method = "PATCH"
    /\ IsSome(RecipeMatch(Val(req').path))
    /\ Authorized(Val(req').auth)
PatchedId == Val(RecipeMatch(Val(req').path))
PatchBody == Val(Val(req').body)

\* C21: a PATCH /recipes/:id answered 200 overwrites exactly the fields named
\* in the JSON body, preserves every other field of that record, and leaves
\* every other record of the store unchanged.
C21_PatchFrame ==
    [][(PatchAnswered /\ Val(httpResp').status = 200) =>
          /\ DOMAIN kv' = DOMAIN kv
          /\ \A k \in DOMAIN kv \ {PatchedId} : kv'[k] = kv[k]
          /\ DOMAIN kv'[PatchedId] = DOMAIN kv[PatchedId] \cup DOMAIN PatchBody
          /\ \A f \in DOMAIN kv'[PatchedId] :
                kv'[PatchedId][f] = IF f \in DOMAIN PatchBody THEN PatchBody[f]
                                    ELSE kv[PatchedId][f]]_vars

\* r1 has been soft-deleted by a PATCH while a second recipe is stored.
C21_Witness ==
    /\ Answered
    /\ Val(req).method = "PATCH"
    /\ Val(req).path = "/recipes/r1"
    /\ Val(httpResp).status = 200
    /\ Val(req).body = Some([deleted |-> TRUE])
    /\ kv["r1"].deleted
    /\ IsSome(kv["r1"].photo)
    /\ "r2" \in DOMAIN kv

\* C22: a PATCH that fails, with 404 because the id is not in the store or
\* with 500 because the body is not valid JSON, leaves the recipe store
\* unchanged and issues no write.
C22_FailedPatchNoWrite ==
    [][(PatchAnswered /\ Val(httpResp').status \in {404, 500}) =>
          /\ kv' = kv
          /\ \A i \in 1..Len(storeOps') : storeOps'[i][2] # "put"]_vars

\* A PATCH of the stored r1 whose body is not JSON has been answered 500.
C22_Witness ==
    /\ Answered
    /\ Val(req).method = "PATCH"
    /\ Val(req).path = "/recipes/r1"
    /\ Val(httpResp).status = 500
    /\ DOMAIN kv = {"r1"}

(***************************************************************************)
(* Two PATCH invocations at once.  Each invocation awaits env.RECIPES.get, *)
(* then request.json(), then env.RECIPES.put: the other invocation runs    *)
(* between these steps.                                                    *)
(***************************************************************************)
PairIds == {"r1", "r2"}
PairBodies == { [deleted |-> TRUE], [deleted |-> FALSE], [title |-> "Soup"] }

\* A recipe is posted (without a link, so that the handler awaits nothing
\* outside the stores).
PairPost ==
    /\ ApiPost(None, TRUE)

\* const recipe = await env.RECIPES.get(id): 404 if there is none.
PatchGets(c, id, body) ==
    /\ patches[c].pc = "idle"
    /\ patches' = [patches EXCEPT ![c] =
           IF id \in DOMAIN kv
           THEN [pc |-> "read", id |-> id, body |-> body, recipe |-> Some(kv[id]), status |-> 0]
           ELSE [pc |-> "done", id |-> id, body |-> body, recipe |-> None, status |-> 404]]
    /\ UNCHANGED <<kind, pc, reqUrl, reqPhoto, now, started, timer, deadline, fetchLog, conn,
                   response, bodyVars, stage, thrown, result, kv, photos, httpResp, req,
                   storeOps, calls, applied, ui>>

\* await env.RECIPES.put(id, { ...recipe, ...body }) with the recipe read
\* earlier, then the 200 response.
PatchPuts(c) ==
    /\ patches[c].pc = "read"
    /\ kv' = (patches[c].id :> Merge(Val(patches[c].recipe), patches[c].body)) @@ kv
    /\ patches' = [patches EXCEPT ![c].pc = "done", ![c].status = 200]
    /\ UNCHANGED <<kind, pc, reqUrl, reqPhoto, now, started, timer, deadline, fetchLog, conn,
                   response, bodyVars, stage, thrown, result, photos, httpResp, req,
                   storeOps, calls, applied, ui>>

\* Both invocations have answered; two more requests may follow.
PatchesReturn ==
    /\ \A c \in CallIds : patches[c].pc = "done"
    /\ patches' = [c \in CallIds |-> IdlePatch]
    /\ UNCHANGED <<kind, pc, reqUrl, reqPhoto, now, started, timer, deadline, fetchLog, conn,
                   response, bodyVars, stage, thrown, result, kv, photos, httpResp, req,
                   storeOps, calls, applied, ui>>

NextPatch ==
    \/ PairPost
    \/ \E later \in {0, 1000} : NextRequest(later)
    \/ \E c \in CallIds, id \in PairIds, body \in PairBodies : PatchGets(c, id, body)
    \/ \E c \in CallIds : PatchPuts(c)
    \/ PatchesReturn

SpecPatch == Init /\ [][NextPatch]_vars

\* Two invocations patched the same recipe with disjoint fields and both
\* answered 200.
BothPatched ==
    /\ patches["a"].status = 200
    /\ patches["b"].status = 200
    /\ patches["a"].id = patches["b"].id
    /\ DOMAIN patches["a"].body \cap DOMAIN patches["b"].body = {}

\* C28: when two PATCH requests to the same recipe that set disjoint fields
\* both complete with status 200, the stored record contains both updates,
\* for every interleaving of their store reads and writes.
C28_BothUpdatesStored ==
    BothPatched =>
        \A c \in CallIds : \A f \in DOMAIN patches[c].body :
            /\ f \in DOMAIN kv[patches[c].id]
            /\ kv[patches[c].id][f] = patches[c].body[f]

(***************************************************************************)
(* The client's add form (src/src/App.jsx): the URL field, the title field *)
(* and the title lookups started on blur and on paste.  A handler and the  *)
(* continuation of an async function see the state of the render in which  *)
(* they were created; state is committed between two events.               *)
(***************************************************************************)
\* How many title lookups and paste timers are outstanding at once.
MaxLookups == 2

FormUrls == {"", "https://example.com/soup"}
TypedTitles == {"", "My soup"}

\* What extractTitleFromUrl settles with: a title, no title, or a rejection.
LookupOutcomes ==
    { [ok |-> TRUE, title |-> "Auto title"], [ok |-> TRUE, title |-> ""],
      [ok |-> FALSE, title |-> ""] }

Without(q, i) == SubSeq(q, 1, i - 1) \o SubSeq(q, i + 1, Len(q))

Outstanding == Len(ui.lookups) + Len(ui.timers)

ClientStep(next) ==
    /\ ui' = next
    /\ UNCHANGED <<kind, pc, reqUrl, reqPhoto, now, started, timer, deadline, fetchLog, conn,
                   response, bodyVars, stage, thrown, result, kv, photos, httpResp, req,
                   storeOps, calls, applied, patches>>

\* disabled={!newRecipe.url || fetchingTitle}
TitleDisabled == ui.url = "" \/ ui.fetchingTitle

\* onChange of the URL field.
TypeUrl(u) ==
    /\ u # ui.url
    /\ ClientStep([ui EXCEPT !.url = u])

\* handleTitleChange
TypeTitle(value) ==
    /\ ~TitleDisabled
    /\ value # ui.title
    /\ ClientStep([ui EXCEPT !.title = value,
                             !.titleManuallyEdited = (value # "") \/ ui.titleManuallyEdited])

\* fetchTitleForUrl up to its await, called with the values edited and title
\* of the render its closure belongs to: it returns at once, or sets
\* fetchingTitle and sends the lookup.
Lookup(app, url, edited, title) ==
    IF url = "" \/ edited \/ title # "" THEN app
    ELSE [app EXCEPT !.fetchingTitle = TRUE,
                     !.lookups = Append(app.lookups, [url |-> url, edited |-> edited])]

\* handleUrlBlur
BlurUrl ==
    /\ ui.url # ""
    /\ Outstanding < MaxLookups
    /\ ClientStep(Lookup(ui, ui.url, ui.titleManuallyEdited, ui.title))

\* handleUrlPaste: the url is set and fetchTitleForUrl is deferred by
\* setTimeout; the callback keeps this render's closure.
PasteUrl(pastedText) ==
    /\ pastedText # ""
    /\ Outstanding < MaxLookups
    /\ ClientStep([ui EXCEPT !.url = pastedText,
                             !.timers = Append(ui.timers,
                                  [url |-> pastedText, edited |-> ui.titleManuallyEdited,
                                   title |-> ui.title])])

\* The setTimeout callback runs.
PasteTimerFires(i) ==
    /\ i \in 1..Len(ui.timers)
    /\ ClientStep(Lookup([ui EXCEPT !.timers = Without(ui.timers, i)],
                         ui.timers[i].url, ui.timers[i].edited, ui.timers[i].title))

\* The rest of fetchTitleForUrl once extractTitleFromUrl has settled: the
\* title is set if there is one and the closure's titleManuallyEdited is
\* false; finally fetchingTitle is reset.
LookupSettles(i, outcome) ==
    /\ i \in 1..Len(ui.lookups)
    /\ ClientStep([ui EXCEPT !.lookups = Without(ui.lookups, i),
                             !.fetchingTitle = FALSE,
                             !.title = IF outcome.ok /\ outcome.title # ""
                                          /\ ~ui.lookups[i].edited
                                       THEN outcome.title ELSE ui.title])

NextTitle ==
    \/ \E u \in FormUrls : TypeUrl(u)
    \/ \E value \in TypedTitles : TypeTitle(value)
    \/ BlurUrl
    \/ \E pastedText \in FormUrls : PasteUrl(pastedText)
    \/ \E i \in 1..MaxLookups : PasteTimerFires(i)
    \/ \E i \in 1..MaxLookups, outcome \in LookupOutcomes : LookupSettles(i, outcome)

SpecTitle == Init /\ [][NextTitle]_vars

\* C24: an automatically extracted title never replaces a title the user
\* has typed: once the title field has been edited manually, no settling
\* title lookup changes it.
C24_TypedTitleKept ==
    [][(ui.titleManuallyEdited /\ Len(ui'.lookups) < Len(ui.lookups))
          => ui'.title = ui.title]_vars

\* C27: while any title lookup is in flight the title input is disabled and
\* shows the fetching placeholder, also when several lookups overlap.
C27_DisabledWhileFetching == ui.lookups # << >> => (ui.fetchingTitle /\ TitleDisabled)

(***************************************************************************)
(* The client's recipe list (src/src/App.jsx): loading, the active and the *)
(* deleted view, soft delete with its confirmation dialog, and Restore.    *)
(* The worker answers a delete or undelete request as its PATCH handler    *)
(* does; a request may also fail without reaching it.                      *)
(***************************************************************************)
\* How many soft-delete requests are outstanding at once.
MaxDeletes == 2

\* The bodies softDeleteRecipe and undeleteRecipe send.
DeleteBody == [deleted |-> TRUE]
UndeleteBody == [deleted |-> FALSE]

\* fetchRecipes: what GET /recipes returns, by id.
Fetched_(store) == [id \in {k \in DOMAIN store : ~store[k].deleted} |-> store[id]]

\* const matchesDeletedFilter = showDeleted ? recipe.deleted : !recipe.deleted
ViewOf(app, showDeleted) ==
    {id \in DOMAIN app.recipes : app.recipes[id].deleted = showDeleted}
ActiveView(app) == ViewOf(app, FALSE)
Shown(id) == id \in ViewOf(ui, ui.showDeleted)

\* Variant: the list is left as it was.
Replaced_Kept(recipes, id, updatedRecipe) == recipes

\* prev.map(r => r.id === id ? updatedRecipe : r)
Replaced(recipes, id, updatedRecipe) ==
    [r \in DOMAIN recipes |-> IF r = id THEN updatedRecipe ELSE recipes[r]]

\* Variant: no request counts as being restored.
Restoring_Never(id) == FALSE

\* undeletingIds.has(recipe.id)
Restoring(id) == id \in ui.undeletingIds

NoRequests == ui.deletes = << >> /\ ui.undeletes = << >>

\* The page is loaded: the component mounts and fetchData stores the list.
LoadPage ==
    /\ NoRequests
    /\ ui.recipes # Fetched_(kv)
    /\ ClientStep([IdleApp EXCEPT !.recipes = Fetched_(kv)])

\* The Show Deleted / Show Active button.
ToggleDeleted ==
    /\ ClientStep([ui EXCEPT !.showDeleted = ~ui.showDeleted])

\* handleDelete
ClickDelete(id) ==
    /\ Shown(id)
    /\ ~ui.recipes[id].deleted
    /\ ui.showConfirmDelete = None
    /\ ClientStep([ui EXCEPT !.showConfirmDelete = Some(id)])

\* cancelDelete
CancelDelete ==
    /\ IsSome(ui.showConfirmDelete)
    /\ ClientStep([ui EXCEPT !.showConfirmDelete = None])

\* confirmDelete up to its await.
ConfirmDelete ==
    /\ IsSome(ui.showConfirmDelete)
    /\ Len(ui.deletes) < MaxDeletes
    /\ ClientStep([ui EXCEPT !.deletes = Append(ui.deletes, Val(ui.showConfirmDelete))])

\* handleUndelete up to its await; on a disabled button, or with the id
\* already in undeletingIds, nothing is sent.
ClickRestore(id) ==
    /\ Shown(id)
    /\ ui.recipes[id].deleted
    /\ IF Restoring(id)
       THEN /\ ~ui.ignoredClick
            /\ ClientStep([ui EXCEPT !.ignoredClick = TRUE])
       ELSE ClientStep([ui EXCEPT !.undeletingIds = ui.undeletingIds \cup {id},
                                  !.undeletes = Append(ui.undeletes, id)])

\* The worker patches the record and answers, or the request fails.
ServerStep(next, id, body, ok) ==
    /\ ui' = next
    /\ kv' = IF ok THEN StoreAfterPatch(id \in DOMAIN kv, id, Some(body)) ELSE kv
    /\ UNCHANGED <<kind, pc, reqUrl, reqPhoto, now, started, timer, deadline, fetchLog, conn,
                   response, bodyVars, stage, thrown, result, photos, httpResp, req,
                   storeOps, calls, applied, patches>>

Answered_(what, id, ok) == Some([what |-> what, id |-> id, ok |-> ok])

\* The rest of confirmDelete.
DeleteSettles(i, ok) ==
    /\ i \in 1..Len(ui.deletes)
    /\ ServerStep([ui EXCEPT !.deletes = Without(ui.deletes, i),
                             !.showConfirmDelete = None,
                             !.settled = Answered_("delete", ui.deletes[i], ok),
                             !.recipes = IF ok THEN Replaced(ui.recipes, ui.deletes[i],
                                                        Merge(kv[ui.deletes[i]], DeleteBody))
                                         ELSE ui.recipes],
                  ui.deletes[i], DeleteBody, ok)

\* The rest of handleUndelete.
UndeleteSettles(i, ok) ==
    /\ i \in 1..Len(ui.undeletes)
    /\ ServerStep([ui EXCEPT !.undeletes = Without(ui.undeletes, i),
                             !.undeletingIds = ui.undeletingIds \ {ui.undeletes[i]},
                             !.settled = Answered_("undelete", ui.undeletes[i], ok),
                             !.recipes = IF ok THEN Replaced(ui.recipes, ui.undeletes[i],
                                                        Merge(kv[ui.undeletes[i]], UndeleteBody))
                                         ELSE ui.recipes],
                  ui.undeletes[i], UndeleteBody, ok)

NextRecipes ==
    \/ PairPost
    \/ NextRequest(0)
    \/ LoadPage
    \/ ToggleDeleted
    \/ \E id \in PairIds : ClickDelete(id)
    \/ CancelDelete
    \/ ConfirmDelete
    \/ \E id \in PairIds : ClickRestore(id)
    \/ \E i \in 1..MaxDeletes, ok \in BOOLEAN : DeleteSettles(i, ok)
    \/ \E i \in 1..MaxDeletes, ok \in BOOLEAN : UndeleteSettles(i, ok)

SpecRecipes == Init /\ [][NextRecipes]_vars

InFlightFor(id) == {i \in 1..Len(ui.undeletes) : ui.undeletes[i] = id}

\* C23: for any recipe at most one undelete request is in flight at a time,
\* however many times Restore is clicked before the first request settles.
C23_OneUndeleteInFlight == \A id \in PairIds : Cardinality(InFlightFor(id)) <= 1

\* Restore was clicked again while the request for r1 was in flight, and the
\* click started nothing.
C23_Witness ==
    /\ ui.undeletes = <<"r1">>
    /\ Restoring("r1")
    /\ ui.ignoredClick

\* Every record keeps all its fields but the deleted flag.
OnlyDeletedChanges ==
    \A id \in DOMAIN kv :
        /\ id \in DOMAIN kv'
        /\ DOMAIN kv'[id] = DOMAIN kv[id]
        /\ \A f \in DOMAIN kv[id] \ {"deleted"} : kv'[id][f] = kv[id][f]

SettledNow(what, id) ==
    /\ Len(ui'.deletes) + Len(ui'.undeletes) < Len(ui.deletes) + Len(ui.undeletes)
    /\ ui'.settled = Answered_(what, id, TRUE)

\* C26: soft-deleting a recipe and then undeleting it leaves every other
\* field of the record unchanged and makes the recipe active again, in the
\* store and in the client's active view: the delete sets only the flag, the
\* undelete clears only the flag, nothing in between touches the record, and
\* after the undelete the client shows the stored record among the active.
C26_DeleteUndeleteRoundTrip ==
    [][/\ OnlyDeletedChanges
       /\ \A id \in PairIds :
             /\ SettledNow("delete", id) =>
                    /\ kv'[id].deleted
                    /\ id \notin ActiveView(ui')
             /\ SettledNow("undelete", id) =>
                    /\ kv[id].deleted
                    /\ ~kv'[id].deleted
                    /\ ui'.recipes[id] = kv'[id]
                    /\ id \in ActiveView(ui')]_vars

\* r1 was soft-deleted, shown in the deleted view, and has been restored.
C26_Witness ==
    /\ ui.settled = Answered_("undelete", "r1", TRUE)
    /\ "r1" \in ActiveView(ui)
    /\ ~kv["r1"].deleted
    /\ ui.showDeleted

====
